---- MODULE Spec2Model ----
(***************************************************************************)
(* FirstOrderExpansion feature map                                         *)
(* (qiskit_aqua/algorithms/components/feature_maps/first_order_expansion.py)*)
(*                                                                         *)
(* The object holds _num_qubits, _depth and _ret.  init_args stores the    *)
(* configuration, construct_circuit validates a data vector x and builds a *)
(* circuit holding one composite gate of U2(0, pi) / U1(2 * x[i]) pairs.   *)
(*                                                                         *)
(* Real data values are represented by integers; an angle is the pair      *)
(* [pi |-> k, v |-> n] standing for k * pi + n.                            *)
(***************************************************************************)
EXTENDS Integers, Sequences, FiniteSets

\* Largest qubit count, vector length and register size explored.
MaxQubits == 2
\* Largest depth explored.
MaxDepth == 2

\* Data values an input vector may hold (distinct and nonzero, so that
\* positions and signs are distinguishable).
Vals == {1, 3}

\* Marker of an attribute that has not been assigned yet.
UNSET == -1

VARIABLES _num_qubits, _depth, _ret, last, held

vars == <<_num_qubits, _depth, _ret, last, held>>

----------------------------------------------------------------------------
(* Values handed to construct_circuit *)

\* qr=None.
None == [name |-> "None", size |-> 0]

\* A QuantumRegister of the given size (a register has at least one qubit).
QuantumRegister(size, name) == [name |-> name, size |-> size]

\* A numpy array: shape and row-major data.  ndim is the length of shape.
ndarray(shape, data) == [type |-> "ndarray", shape |-> shape, data |-> data]

ndim(x) == Len(x.shape)

SeqsOfLen(n) == [1..n -> Vals]

\* 1-D arrays of every length 0..MaxQubits.
Arrays1D == { ndarray(<<Len(d)>>, d) : d \in UNION { SeqsOfLen(k) : k \in 0..MaxQubits } }

\* 2-D arrays of shape (rows, 1); 0-D arrays.
Arrays2D == { ndarray(<<r, 1>>, [k \in 1..r |-> 1]) : r \in 1..MaxQubits }

Arrays0D == { ndarray(<<>>, <<1>>) }

\* Arguments that are not numpy arrays: a Python list of numbers, a string.
NonArrays == { [type |-> "list", shape |-> <<>>, data |-> [k \in 1..n |-> 1]] : n \in 1..MaxQubits }
             \cup { [type |-> "str", shape |-> <<>>, data |-> <<>>] }

XInputs == Arrays1D \cup Arrays2D \cup Arrays0D \cup NonArrays

QrInputs == {None} \cup { QuantumRegister(s, "r") : s \in 1..MaxQubits }

----------------------------------------------------------------------------
(* Gates *)

Angle(k, n) == [pi |-> k, v |-> n]

U2Gate(phi, lam, qubit) == [name |-> "u2", param |-> <<phi, lam>>, qubit |-> qubit]

U1Gate(theta, qubit) == [name |-> "u1", param |-> <<theta>>, qubit |-> qubit]

Neg(a) == Angle(0 - a.pi, 0 - a.v)

AddPi(a, k) == Angle(a.pi + k, a.v)

\* Gate.inverse(): u1(t)^-1 = u1(-t); u2(phi, lam)^-1 = u2(-lam - pi, -phi + pi).
GateInverse(g) ==
    IF g.name = "u1"
    THEN [g EXCEPT !.param = <<Neg(g.param[1])>>]
    ELSE [g EXCEPT !.param = <<AddPi(Neg(g.param[2]), -1), AddPi(Neg(g.param[1]), 1)>>]

\* CompositeGate.inverse(): the gates in reversed order, each inverted.
inverse(data) == [k \in 1..Len(data) |-> GateInverse(data[Len(data) + 1 - k])]

\* qr[i]: the i-th qubit (0-based) of a register.
Qubit(qr, i) == <<qr.name, i>>

----------------------------------------------------------------------------
(* construct_circuit, step by step *)

\* Variant: a Python list is let through the type check.
validate_list_accepted(x) ==
    IF x.type \notin {"ndarray", "list"} THEN [exc |-> "TypeError", line |-> 88]
    ELSE IF ndim(x) # 1 THEN [exc |-> "ValueError", line |-> 90]
    ELSE IF _num_qubits = UNSET THEN [exc |-> "AttributeError", line |-> 91]
    ELSE IF x.shape[1] # _num_qubits THEN [exc |-> "ValueError", line |-> 92]
    ELSE [exc |-> "ok", line |-> 0]

\* Variant: the length is checked before the dimensionality.
validate_length_first(x) ==
    IF x.type # "ndarray" THEN [exc |-> "TypeError", line |-> 88]
    ELSE IF ndim(x) = 0 THEN [exc |-> "IndexError", line |-> 91]
    ELSE IF _num_qubits = UNSET THEN [exc |-> "AttributeError", line |-> 91]
    ELSE IF x.shape[1] # _num_qubits THEN [exc |-> "ValueError", line |-> 92]
    ELSE IF ndim(x) # 1 THEN [exc |-> "ValueError", line |-> 90]
    ELSE [exc |-> "ok", line |-> 0]

\* Lines 87-92: the validation of x.  "ok" or the exception raised, with the
\* line that raises it.  Reading self._num_qubits before init_args has run
\* raises AttributeError.
validate(x) ==
    IF x.type # "ndarray" THEN [exc |-> "TypeError", line |-> 88]
    ELSE IF ndim(x) # 1 THEN [exc |-> "ValueError", line |-> 90]
    ELSE IF _num_qubits = UNSET THEN [exc |-> "AttributeError", line |-> 91]
    ELSE IF x.shape[1] # _num_qubits THEN [exc |-> "ValueError", line |-> 92]
    ELSE [exc |-> "ok", line |-> 0]

\* Lines 68-70: the inner loop from index i on; two gates per element of x.
RECURSIVE InnerLoop(_, _, _, _)
InnerLoop(data, x, qr, i) ==
    IF i >= x.shape[1] THEN data
    ELSE InnerLoop(data \o <<U2Gate(Angle(0, 0), Angle(1, 0), Qubit(qr, i)),
                             U1Gate(Angle(0, 2 * x.data[i + 1]), Qubit(qr, i))>>,
                   x, qr, i + 1)

\* Lines 67-70: the outer loop from round r on.
RECURSIVE OuterLoop(_, _, _, _)
OuterLoop(data, x, qr, r) ==
    IF r >= _depth THEN data
    ELSE OuterLoop(InnerLoop(data, x, qr, 0), x, qr, r + 1)

\* Variant: the outer loop is missing, one round whatever the depth.
_build_composite_gate_one_round(x, qr) == InnerLoop(<<>>, x, qr, 0)

\* Variant: qubit-major order, all rounds of qubit 0 first.
_build_composite_gate_qubit_major(x, qr) ==
    [k \in 1..(2 * _depth * x.shape[1]) |->
        LET i == (k - 1) \div (2 * _depth) IN
        IF k % 2 = 1 THEN U2Gate(Angle(0, 0), Angle(1, 0), Qubit(qr, i))
        ELSE U1Gate(Angle(0, 2 * x.data[i + 1]), Qubit(qr, i))]

\* Variant: the gate list is shared between calls instead of starting empty.
_build_composite_gate_shared(x, qr) == OuterLoop(last.qc.data, x, qr, 0)

\* Lines 63-72: the gates of the composite gate (it starts empty).
_build_composite_gate(x, qr) == OuterLoop(<<>>, x, qr, 0)

\* Variant: the gates are inverted one by one but their order is kept.
attached_not_reversed(data, inv) ==
    IF inv THEN [k \in 1..Len(data) |-> GateInverse(data[k])] ELSE data

\* Line 98: what is attached to the circuit.
attached(data, inv) == IF inv THEN inverse(data) ELSE data

NoCircuit == [regs |-> <<>>, data |-> <<>>]

\* The result of a call that raises: nothing is returned.  x is the argument
\* at entry and xAfter the array at exit; no line of the method writes to x.
Raise(x, qr, inv, e, reg, circ) ==
    [op |-> "construct_circuit", x |-> x, xAfter |-> x, qr |-> qr, inverse |-> inv,
     exc |-> e.exc, line |-> e.line,
     regAllocated |-> reg, circuitCreated |-> circ, compositeCreated |-> FALSE,
     gatesAttached |-> 0, returned |-> FALSE, qc |-> NoCircuit]

\* Lines 74-100: the outcome of construct_circuit(x, qr, inverse).
\*  - line 95 allocates a register that is bound to no name; QuantumRegister
\*    rejects a size that is not positive;
\*  - line 96: QuantumCircuit(qr) rejects an argument that is no register;
\*  - line 65: qr[i] is out of range when the register is too small.
Outcome(x, qr, inv) ==
    LET v == validate(x) IN
    IF v.exc # "ok" THEN Raise(x, qr, inv, v, FALSE, FALSE)
    ELSE IF qr = None /\ _num_qubits <= 0
         THEN Raise(x, qr, inv, [exc |-> "QISKitError", line |-> 95], FALSE, FALSE)
    ELSE IF qr = None
         THEN Raise(x, qr, inv, [exc |-> "QISKitError", line |-> 96], TRUE, FALSE)
    ELSE IF _num_qubits > qr.size
         THEN Raise(x, qr, inv, [exc |-> "QISKitError", line |-> 65], FALSE, TRUE)
    ELSE LET data == _build_composite_gate(x, qr) IN
         [op |-> "construct_circuit", x |-> x, xAfter |-> x, qr |-> qr, inverse |-> inv,
          exc |-> "ok", line |-> 0,
          regAllocated |-> FALSE, circuitCreated |-> TRUE, compositeCreated |-> TRUE,
          gatesAttached |-> Len(data), returned |-> TRUE,
          qc |-> [regs |-> <<qr>>, data |-> attached(data, inv)]]

\* The circuit of an earlier successful call that the caller still holds,
\* with the arguments of that call and whether a later call has raised.
NoHeld == [has |-> FALSE, x |-> ndarray(<<0>>, <<>>), qr |-> None, inverse |-> FALSE,
           qc |-> NoCircuit, raisedSince |-> FALSE]

Hold(r) == [has |-> TRUE, x |-> r.x, qr |-> r.qr, inverse |-> r.inverse,
            qc |-> r.qc, raisedSince |-> FALSE]

Later(h, r) == IF h.has /\ r.exc # "ok" THEN [h EXCEPT !.raisedSince = TRUE] ELSE h

----------------------------------------------------------------------------
(* Operations *)

NoCall == [op |-> "__init__", x |-> ndarray(<<0>>, <<>>), xAfter |-> ndarray(<<0>>, <<>>),
           qr |-> None, inverse |-> FALSE,
           exc |-> "ok", line |-> 0,
           regAllocated |-> FALSE, circuitCreated |-> FALSE, compositeCreated |-> FALSE,
           gatesAttached |-> 0, returned |-> FALSE, qc |-> NoCircuit]

\* Lines 55-57: __init__ sets _ret = {}; the configuration is not set yet.
Init ==
    /\ _num_qubits = UNSET
    /\ _depth = UNSET
    /\ _ret = <<>>
    /\ last = NoCall
    /\ held = NoHeld

\* Lines 59-61: init_args stores both values as given.
init_args(num_qubits, depth) ==
    /\ _num_qubits' = num_qubits
    /\ _depth' = depth
    /\ last' = [NoCall EXCEPT !.op = "init_args"]
    /\ held' = NoHeld
    /\ UNCHANGED _ret

\* Variant: the circuit built is cached in self._ret.
construct_circuit_caching(x, qr, inv) ==
    \E r \in {Outcome(x, qr, inv)} :
    /\ last' = r
    /\ \/ r.returned /\ held' = Hold(r)
       \/ held' = Later(held, r)
    /\ _ret' = IF r.returned THEN <<r.qc>> ELSE _ret
    /\ UNCHANGED <<_num_qubits, _depth>>

\* Lines 74-100: construct_circuit writes nothing but the objects it creates.
\* The caller keeps the returned circuit or goes on holding an earlier one.
construct_circuit(x, qr, inv) ==
    \E r \in {Outcome(x, qr, inv)} :
    /\ last' = r
    /\ \/ r.returned /\ held' = Hold(r)
       \/ held' = Later(held, r)
    /\ UNCHANGED <<_num_qubits, _depth, _ret>>

Configure == \E n \in 0..MaxQubits, d \in 0..MaxDepth : init_args(n, d)

BuildCircuit == \E x \in XInputs, qr \in QrInputs, inv \in BOOLEAN : construct_circuit(x, qr, inv)

Next == Configure \/ BuildCircuit

Spec == Init /\ [][Next]_vars

----------------------------------------------------------------------------
(* Properties *)

IsCall == last.op = "construct_circuit"

Configured == _num_qubits # UNSET

\* x is a 1-D numpy array of length _num_qubits.
ValidX(x) == x.type = "ndarray" /\ ndim(x) = 1 /\ x.shape[1] = _num_qubits

Supplied(qr) == qr # None

\* C1 as stated: with numQubits >= 1, depth >= 1, a 1-D x of length numQubits
\* and any supplied register, the call returns and the circuit holds exactly
\* depth * numQubits * 2 gates.
C1_AnyRegister ==
    (IsCall /\ _num_qubits >= 1 /\ _depth >= 1 /\ ValidX(last.x) /\ Supplied(last.qr))
        => /\ last.exc = "ok"
           /\ last.returned
           /\ Len(last.qc.data) = _depth * _num_qubits * 2

\* C1 amended: the same for every supplied register that has at least
\* numQubits qubits.
C1_GateCount ==
    (IsCall /\ _num_qubits >= 1 /\ _depth >= 1 /\ ValidX(last.x) /\ Supplied(last.qr)
            /\ last.qr.size >= _num_qubits)
        => /\ last.exc = "ok"
           /\ last.returned
           /\ Len(last.qc.data) = _depth * _num_qubits * 2

C1_Witness ==
    /\ IsCall /\ _num_qubits = 2 /\ _depth = 2 /\ ValidX(last.x) /\ Supplied(last.qr)
    /\ last.qr.size >= _num_qubits
    /\ last.inverse
    /\ Len(last.qc.data) = 8

\* C2: with inverse=False the gates are round-major, then qubit-index-major:
\* position 2*(r*n + i) is U2(0, pi) on qubit i and position 2*(r*n + i) + 1
\* is U1(2 * x[i]) on qubit i (positions counted from 0).
C2_Order ==
    (IsCall /\ last.exc = "ok" /\ ~last.inverse)
        => \A r \in 0..(_depth - 1), i \in 0..(_num_qubits - 1) :
              LET p == 2 * (r * _num_qubits + i) IN
              /\ p + 2 <= Len(last.qc.data)
              /\ last.qc.data[p + 1] =
                    [name |-> "u2", param |-> <<[pi |-> 0, v |-> 0], [pi |-> 1, v |-> 0]>>,
                     qubit |-> <<last.qr.name, i>>]
              /\ last.qc.data[p + 2] =
                    [name |-> "u1", param |-> <<[pi |-> 0, v |-> 2 * last.x.data[i + 1]]>>,
                     qubit |-> <<last.qr.name, i>>]

C2_Witness ==
    /\ IsCall /\ last.exc = "ok" /\ ~last.inverse
    /\ _num_qubits = 2 /\ _depth = 2
    /\ last.x.data[1] # last.x.data[2]
    /\ last.qc.data[5].qubit[2] = 0
    /\ last.qc.data[4].qubit[2] = 1

\* h is the inverse of gate g: same kind, same qubit, u1(t) -> u1(-t) and
\* u2(phi, lam) -> u2(-lam - pi, -phi + pi).
IsInverseGate(g, h) ==
    /\ h.name = g.name
    /\ h.qubit = g.qubit
    /\ Len(h.param) = Len(g.param)
    /\ g.name = "u1" =>
          /\ h.param[1].pi = 0 - g.param[1].pi
          /\ h.param[1].v = 0 - g.param[1].v
    /\ g.name = "u2" =>
          /\ h.param[1].pi = 0 - g.param[2].pi - 1
          /\ h.param[1].v = 0 - g.param[2].v
          /\ h.param[2].pi = 1 - g.param[1].pi
          /\ h.param[2].v = 0 - g.param[1].v

\* inv is the structural inverse of fwd: reversed order, each gate inverted.
IsStructuralInverse(fwd, inv) ==
    /\ Len(inv) = Len(fwd)
    /\ \A k \in 1..Len(fwd) : IsInverseGate(fwd[Len(fwd) + 1 - k], inv[k])

\* The call just made and the held circuit come from the same x and register.
SameData == held.has /\ IsCall /\ last.exc = "ok" /\ held.x = last.x /\ held.qr = last.qr

\* C3: for the same x and register, what inverse=True attaches is the
\* structural inverse of what inverse=False attaches.
C3_InverseLaw ==
    /\ (SameData /\ ~held.inverse /\ last.inverse)
          => IsStructuralInverse(held.qc.data, last.qc.data)
    /\ (SameData /\ held.inverse /\ ~last.inverse)
          => IsStructuralInverse(last.qc.data, held.qc.data)

C3_Witness ==
    /\ SameData /\ ~held.inverse /\ last.inverse
    /\ _num_qubits = 2 /\ _depth = 2
    /\ last.x.data[1] # last.x.data[2]
    /\ last.qc.data[1].name = "u1"
    /\ last.qc.data[1].qubit[2] = 1

\* C4 as stated: with qr omitted and a valid x, a register of numQubits qubits
\* is allocated and the circuit returned holds depth * numQubits * 2 gates on
\* that register.
C4_DefaultRegister ==
    (IsCall /\ last.qr = None /\ ValidX(last.x) /\ _num_qubits >= 1 /\ _depth >= 1)
        => /\ last.exc = "ok"
           /\ last.returned
           /\ last.regAllocated
           /\ last.qc.regs = <<[name |-> "q", size |-> _num_qubits]>>
           /\ Len(last.qc.data) = _depth * _num_qubits * 2

\* C5: the call raises the type error exactly when x is not a numpy array
\* (the one recognized numeric sequence type), whatever its shape or length.
C5_TypeError ==
    IsCall => /\ (last.x.type # "ndarray") => (last.exc = "TypeError" /\ last.line = 88)
              /\ (last.x.type = "ndarray") => last.exc # "TypeError"

C5_Witness ==
    /\ IsCall /\ last.x.type = "list" /\ Len(last.x.data) = _num_qubits
    /\ _num_qubits >= 1
    /\ last.exc = "TypeError"

\* C6: for a numpy array and a configured feature map the call raises the
\* shape error exactly when x is not 1-D or its length differs from
\* numQubits; the dimensionality is checked first; a 1-D array of the right
\* length passes validation.
C6_ShapeError ==
    (IsCall /\ last.x.type = "ndarray")
        => /\ (ndim(last.x) # 1) => (last.exc = "ValueError" /\ last.line = 90)
           /\ Configured =>
                 /\ (last.exc = "ValueError")
                       <=> (ndim(last.x) # 1 \/ last.x.shape[1] # _num_qubits)
                 /\ (ndim(last.x) = 1 /\ last.x.shape[1] # _num_qubits)
                       => last.line = 92
                 /\ ValidX(last.x) => last.line \notin {88, 90, 91, 92}

C6_Witness ==
    /\ IsCall /\ last.x.type = "ndarray" /\ Configured
    /\ ndim(last.x) = 2 /\ last.x.shape[1] # _num_qubits
    /\ last.exc = "ValueError" /\ last.line = 90

\* C7 as stated: in every call that raises, no register has been allocated,
\* no circuit or composite gate created, no gate attached, nothing returned
\* (taken on configurations with numQubits >= 1 and depth >= 1 only).
C7_NothingBeforeFailure ==
    (IsCall /\ last.exc # "ok" /\ _num_qubits >= 1 /\ _depth >= 1)
        => /\ ~last.regAllocated
           /\ ~last.circuitCreated
           /\ ~last.compositeCreated
           /\ last.gatesAttached = 0
           /\ ~last.returned

\* C8 as stated: once configured, the stored qubit count and depth are
\* both >= 1.
C8_ConfigurationPositive ==
    Configured => (_num_qubits >= 1 /\ _depth >= 1)

\* C9: a call with the same (x, register, inverse) as an earlier call on the
\* same configuration yields the same gate sequence, whatever calls were made
\* in between.
C9_Deterministic ==
    (SameData /\ held.inverse = last.inverse)
        => /\ last.qc.data = held.qc.data
           /\ last.qc.regs = held.qc.regs

C9_Witness ==
    /\ SameData /\ held.inverse = last.inverse
    /\ held.raisedSince
    /\ Len(last.qc.data) >= 4

\* C10: a construct_circuit call, returning or raising, leaves _num_qubits,
\* _depth, _ret and the array x as they were.
C10_Frame ==
    [][(last'.op = "construct_circuit")
          => /\ _num_qubits' = _num_qubits
             /\ _depth' = _depth
             /\ _ret' = _ret
             /\ last'.xAfter = last'.x]_vars

C10_Witness ==
    /\ IsCall /\ last.returned
    /\ held.has /\ held.raisedSince
    /\ _ret = <<>>
    /\ last.xAfter = last.x

====
